---- MODULE Spec2Model ----
(***************************************************************************)
(* Precinct adjacency graph construction and connectivity repair           *)
(* (precinctGraph.py): build_precinct_adjacency_graph and                  *)
(* connect_components_to_largest.                                          *)
(*                                                                         *)
(* Lengths and distances are integers in units of 0.0001 m, so one foot    *)
(* is 3048 units.  Representative points lie on a line, so the Euclidean   *)
(* distance between two of them is the absolute difference of their       *)
(* coordinates.  The geometric measurements of a pair of regions           *)
(* (intersects, boundary-intersection length, distance, buffered-boundary  *)
(* overlap length, bounding-box gap) are inputs of the model.  Attribute   *)
(* values are records of their Python type and an integer.                 *)
(***************************************************************************)
EXTENDS Integers, Sequences, FiniteSets, TLC

\* ---- bounds of the model ------------------------------------------------
MaxRows == 3
MaxNodes == 5
MaxCoord == 2
AttrRows == 2
ScenarioRows == 3

\* ---- program constants --------------------------------------------------
FEET_TO_METERS == 3048
PROXIMITY_FEET == 200
EPS_M == 10000
DiagComps == 3

\* ---- ids ------------------------------------------------------------------
\* A value of the id column is a string or an integer; str() of either is the
\* string with the same digits.
StrId(n) == [kind |-> "str", val |-> n]
IntId(n) == [kind |-> "int", val |-> n]
Str(x) == [kind |-> "str", val |-> x.val]

SeqToSet(s) == {s[k] : k \in 1..Len(s)}

\* The node id taken from the id column without str().
NodeOfRowRaw(idcol, r) == idcol[r]

\* G's node for each row, in row order (duplicates collapse in G itself).
NodeOfRow(idcol, r) == Str(idcol[r])

\* `a in centroids.index`: the index holds the raw id values.
InIndex(idcol, a) == \E r \in 1..Len(idcol) : idcol[r] = a

\* centroids.loc[a]: the representative point of the row whose raw id is a.
RowOf(idcol, a) == CHOOSE r \in 1..Len(idcol) : idcol[r] = a
PointOf(idcol, points, a) == points[RowOf(idcol, a)]

Abs(x) == IF x < 0 THEN -x ELSE x
Dist(p, q) == Abs(p - q)

\* ---- graph ----------------------------------------------------------------
\* An edge is keyed by its unordered pair of nodes; its value is the
\* attribute dictionary.  add_edge merges into an existing dictionary.
EdgeKey(u, v) == {u, v}

AddEdge(edges, u, v, attrs) ==
    LET key == EdgeKey(u, v)
        old == IF key \in DOMAIN edges THEN edges[key] ELSE <<>>
        merged == [k \in (DOMAIN old) \cup (DOMAIN attrs) |->
                      IF k \in DOMAIN attrs THEN attrs[k] ELSE old[k]]
    IN  [e \in (DOMAIN edges) \cup {key} |-> IF e = key THEN merged ELSE edges[e]]

NoEdges == [e \in {} |-> <<>>]

\* add_edge also inserts an endpoint that is not yet a node of G.
RECURSIVE WithEndpoints(_, _)
WithEndpoints(nseq, edges) ==
    LET new == (UNION (DOMAIN edges)) \ SeqToSet(nseq)
    IN  IF new = {} THEN nseq
        ELSE WithEndpoints(Append(nseq, CHOOSE n \in new : TRUE), edges)

Neighbours(nodes, edges, S) ==
    S \cup {v \in nodes : \E u \in S : EdgeKey(u, v) \in DOMAIN edges}

RECURSIVE Reach(_, _, _)
Reach(nodes, edges, S) ==
    LET T == Neighbours(nodes, edges, S)
    IN  IF T = S THEN S ELSE Reach(nodes, edges, T)

\* Every node taken as a component of its own.
ComponentsPerNode(nodes, edges) == {{n} : n \in nodes}

\* nx.connected_components as a set of node sets.
Components(nodes, edges) == {Reach(nodes, edges, {n}) : n \in nodes}

NumComps(nodes, edges) == Cardinality(Components(nodes, edges))

\* Position in G's insertion order of the first node of a component.
FirstPos(nseq, comp) == CHOOSE k \in 1..Len(nseq) :
                           nseq[k] \in comp /\ \A m \in 1..(k-1) : nseq[m] \notin comp

\* sorted(list(nx.connected_components(G)), key=len, reverse=True):
\* connected_components yields components in the order of their first node
\* in G; the sort is stable, so equal sizes keep that order.
Before(nseq, c, d) ==
    \/ Cardinality(c) > Cardinality(d)
    \/ Cardinality(c) = Cardinality(d) /\ FirstPos(nseq, c) < FirstPos(nseq, d)

RECURSIVE SortComps(_, _)
SortComps(nseq, comps) ==
    IF comps = {} THEN <<>>
    ELSE LET c == CHOOSE c \in comps : \A d \in comps \ {c} : Before(nseq, c, d)
         IN  <<c>> \o SortComps(nseq, comps \ {c})

\* The components in the order connected_components yields them, unsorted.
CompsByFirstNode(nseq, edges) ==
    LET nodes == SeqToSet(nseq)
        idx == SelectSeq([k \in 1..Len(nseq) |-> k],
                         LAMBDA k : \A m \in 1..(k - 1) :
                                       nseq[m] \notin Reach(nodes, edges, {nseq[k]}))
    IN  [j \in 1..Len(idx) |-> Reach(nodes, edges, {nseq[idx[j]]})]

CompsSorted(nseq, edges) == SortComps(nseq, Components(SeqToSet(nseq), edges))

\* All orders in which list(S) can enumerate a set S.
RECURSIVE Perms(_)
Perms(S) ==
    IF S = {} THEN {<<>>}
    ELSE UNION {{<<x>> \o p : p \in Perms(S \ {x})} : x \in S}

\* ---- adjacency classifier --------------------------------------------------
min_len_m(feet) == feet * FEET_TO_METERS
tol_m == PROXIMITY_FEET * FEET_TO_METERS

StrictAttrs(shared_len) == [shared_m |-> shared_len, tolerance |-> 0]
ToleranceAttrs(shared_len_tol) ==
    [shared_m |-> shared_len_tol, tolerance |-> 1, tol_m |-> tol_m, eps_m |-> EPS_M]
\* A bridge marked without its centroid distance.
BridgeAttrsBare(dist_m) == [bridge |-> 1]
BridgeAttrs(dist_m) == [bridge |-> 1, centroid_dist_m |-> dist_m]

\* The measurements of a pair of regions (i, j), i < j:
\*   bbox_gap        the larger of the two axis gaps between the bounding
\*                   boxes of geom_i and geom_j (0 when the boxes meet)
\*   intersects      geom_i.intersects(geom_j)
\*   shared_len      boundaries[i].intersection(boundaries[j]).length
\*   distance        geom_i.distance(geom_j)
\*   shared_len_tol  bi.intersection(bj.buffer(EPS_M)).length
\* Intersecting geometries are at distance 0, and two geometries are never
\* closer than their bounding boxes: distance >= bbox_gap.
PairGeo(bbox_gap, intersects, shared_len, distance, shared_len_tol) ==
    [bbox_gap |-> bbox_gap, intersects |-> intersects, shared_len |-> shared_len,
     distance |-> distance, shared_len_tol |-> shared_len_tol]

GeoKinds(feet) ==
    LET m == min_len_m(feet)
    IN  {PairGeo(tol_m + 1, FALSE, 0, tol_m + 1, 0)}
        \cup {PairGeo(0, TRUE, l, 0, m) : l \in {0, m - 1, m}}
        \cup {PairGeo(tol_m, FALSE, 0, d, t) : d \in {tol_m, tol_m + 1}, t \in {m - 1, m}}

\* A region against itself: its boundary meets itself along its whole
\* length, taken to reach the threshold.
SelfGeo(feet) == PairGeo(0, TRUE, min_len_m(feet), 0, min_len_m(feet))

\* The measurements the loop reads for rows i and j.
GeoAt(g, feet, i, j) ==
    IF i = j THEN SelfGeo(feet)
    ELSE IF i < j THEN g[<<i, j>>] ELSE g[<<j, i>>]

\* The index queried with the bounds of the unbuffered geometry.
CandidateUnbuffered(g) == g.bbox_gap <= 0

\* Line 246: j is returned by sindex.intersection(buffered.iloc[i].bounds)
\* when its bounding box meets that of geom_i grown by tol_m on every side.
Candidate(g) == g.bbox_gap <= tol_m

\* Only the row itself is skipped.
SkipCandidateSelf(i, j) == j = i

\* Only the earlier rows are skipped.
SkipCandidateLower(i, j) == j < i

\* Lines 249-250: `if j <= i: continue`.
SkipCandidate(i, j) == j <= i

\* The tolerance tier tried whenever the strict tier emits nothing (no
\* `continue` after the strict case).
ClassifyPairFallThrough(g, feet) ==
    IF g.intersects /\ g.shared_len >= min_len_m(feet)
    THEN {StrictAttrs(g.shared_len)}
    ELSE IF g.distance <= tol_m
         THEN IF g.shared_len_tol >= min_len_m(feet)
              THEN {ToleranceAttrs(g.shared_len_tol)} ELSE {}
         ELSE {}

\* The tolerance tier with `<` for `<=` in the distance test.
ClassifyPairDistLt(g, feet) ==
    IF g.intersects
    THEN IF g.shared_len >= min_len_m(feet) THEN {StrictAttrs(g.shared_len)} ELSE {}
    ELSE IF g.distance < tol_m
         THEN IF g.shared_len_tol >= min_len_m(feet)
              THEN {ToleranceAttrs(g.shared_len_tol)} ELSE {}
         ELSE {}

\* The proximity tolerance taken from min_shared_boundary_feet.
ClassifyPairTolFollows(g, feet) ==
    IF g.intersects
    THEN IF g.shared_len >= min_len_m(feet) THEN {StrictAttrs(g.shared_len)} ELSE {}
    ELSE IF g.distance <= min_len_m(feet)
         THEN IF g.shared_len_tol >= min_len_m(feet)
              THEN {ToleranceAttrs(g.shared_len_tol)} ELSE {}
         ELSE {}

\* The strict tier with `<=` for `>=` in the length test.
ClassifyPairStrictLe(g, feet) ==
    IF g.intersects
    THEN IF g.shared_len <= min_len_m(feet) THEN {StrictAttrs(g.shared_len)} ELSE {}
    ELSE IF g.distance <= tol_m
         THEN IF g.shared_len_tol >= min_len_m(feet)
              THEN {ToleranceAttrs(g.shared_len_tol)} ELSE {}
         ELSE {}

\* Lines 255-282: the decision for one candidate pair.  The result is the
\* set of attribute dictionaries handed to add_edge (empty: no edge).
ClassifyPair(g, feet) ==
    IF g.intersects
    THEN IF g.shared_len >= min_len_m(feet) THEN {StrictAttrs(g.shared_len)} ELSE {}
    ELSE IF g.distance <= tol_m
         THEN IF g.shared_len_tol >= min_len_m(feet)
              THEN {ToleranceAttrs(g.shared_len_tol)} ELSE {}
         ELSE {}

\* Lines 246-253 for row i: the pairs that reach the classification, in
\* index order.
TestedPairs(idcol, g, feet, i) ==
    SelectSeq([j \in 1..Len(idcol) |-> <<i, j>>],
              LAMBDA p : Candidate(GeoAt(g, feet, i, p[2])) /\ ~SkipCandidate(i, p[2]))

\* Lines 248-282 for row i: the candidates from row j on, in index order.
RECURSIVE ClassifyCandidates(_, _, _, _, _, _)
ClassifyCandidates(edges, idcol, g, feet, i, j) ==
    IF j > Len(idcol) THEN edges
    ELSE LET m == GeoAt(g, feet, i, j)
             found == IF Candidate(m) /\ ~SkipCandidate(i, j)
                      THEN ClassifyPair(m, feet) ELSE {}
             next == IF found = {} THEN edges
                     ELSE AddEdge(edges, NodeOfRow(idcol, i), NodeOfRow(idcol, j),
                                  CHOOSE at \in found : TRUE)
         IN  ClassifyCandidates(next, idcol, g, feet, i, j + 1)

\* ---- connectivity repair ----------------------------------------------------
NoErr == [type |-> "none", ids |-> {}]
KeyError(missing) == [type |-> "KeyError", ids |-> missing]
TypeError == [type |-> "TypeError", ids |-> {}]
IndexError == [type |-> "IndexError", ids |-> {}]

\* Labels of a list that centroids.loc[list] does not find.
Missing(idcol, llist) == {n \in SeqToSet(llist) : ~InIndex(idcol, n)}

\* Lines 139-141: dists.min() and dists.idxmin(), the first label of the list
\* at the minimum distance.
MinDist(idcol, points, llist, a) ==
    LET ca == PointOf(idcol, points, a)
        ds == {Dist(PointOf(idcol, points, llist[k]), ca) : k \in 1..Len(llist)}
    IN  CHOOSE d \in ds : \A e \in ds : d <= e

\* The first label of the list, whatever its distance.
IdxMinFirst(idcol, points, llist, a) == Str(llist[1])

IdxMin(idcol, points, llist, a) ==
    LET ca == PointOf(idcol, points, a)
        d == MinDist(idcol, points, llist, a)
        k == CHOOSE k \in 1..Len(llist) :
                /\ Dist(PointOf(idcol, points, llist[k]), ca) = d
                /\ \A m \in 1..(k - 1) : Dist(PointOf(idcol, points, llist[m]), ca) # d
    IN  Str(llist[k])

\* Lines 133-143: the values `best` can end with, over the orders in which
\* list(comp) can enumerate the component: the first a of that order at the
\* least distance wins (dist < best[0] is strict).
BestChoices(idcol, points, llist, comp) ==
    LET usable == {a \in comp : InIndex(idcol, a)}
        least == CHOOSE d \in {MinDist(idcol, points, llist, a) : a \in usable} :
                    \A a \in usable : d <= MinDist(idcol, points, llist, a)
    IN  {[dist |-> least, a |-> Str(a), b |-> IdxMin(idcol, points, llist, a)] :
            a \in {x \in usable : MinDist(idcol, points, llist, x) = least}}

\* Every node of the bridged component joins the main list, a first.
AbsorbAll(llist, comp, a) == llist \o (CHOOSE p \in Perms(comp) : p[1] = a)

\* Lines 153-156: the main list after a bridge from a.
Absorb(llist, comp, a) == Append(llist, a)

\* Lines 289-306: the diagnostics after repair.  comps_sorted[0] of an empty
\* graph raises IndexError; for each of the next three components, a node in
\* the index makes centroids.loc[largest_list] raise KeyError when a node of
\* the largest component is not in the index, and a component with no node
\* in the index leaves best = None, on which float(best) raises TypeError.
RECURSIVE DiagLoop(_, _, _, _)
DiagLoop(idcol, largest, comps, k) ==
    IF k > Len(comps) \/ k > 1 + DiagComps THEN NoErr
    ELSE LET usable == {a \in comps[k] : InIndex(idcol, a)}
             missing == {n \in largest : ~InIndex(idcol, n)}
         IN  IF usable # {} /\ missing # {} THEN KeyError(missing)
             ELSE IF usable = {} THEN TypeError
             ELSE DiagLoop(idcol, largest, comps, k + 1)

\* Diagnostics that print nothing for a component whose best is None.
DiagnosticsSkipNone(idcol, nseq, edges) ==
    IF Len(CompsSorted(nseq, edges)) = 0 THEN IndexError ELSE NoErr

Diagnostics(idcol, nseq, edges) ==
    LET comps_sorted == CompsSorted(nseq, edges)
    IN  IF Len(comps_sorted) = 0 THEN IndexError
        ELSE DiagLoop(idcol, comps_sorted[1], comps_sorted, 2)

\* ---- attribute values -----------------------------------------------------------
\* A value is a record of the Python type it has and an integer:
\*   "str"  str            "int"   np.integer      "pyint" int
\*   "float" finite float  "npfloat" finite np.floating
\*   "nan"  float('nan')   "npnan" np.floating nan
\*   "inf"  float +-inf    "npinf" np.floating +-inf   (val is the sign)
\*   "bool" bool           "npbool" np.bool_           (val is 0 or 1)
\*   "NA"   pd.NA          "NaT"   pd.NaT          "None"  None
Val(kind, val) == [kind |-> kind, val |-> val]
None == Val("None", 0)

\* Every np.floating mapped to None.
sanitize_floats_null(x) ==
    IF x.kind \in {"npbool", "bool"} THEN Val("bool", x.val)
    ELSE IF x.kind = "int" THEN Val("pyint", x.val)
    ELSE IF x.kind \in {"npfloat", "npnan", "npinf", "nan", "NA", "NaT", "None"} THEN None
    ELSE x

\* Lines 37-70: bool(x) for booleans, int(x) for np.integer, None for an
\* np.floating NaN and float(x) for any other np.floating (an infinity stays
\* an infinity), None where pd.isna(x) holds (NaN, pd.NA, pd.NaT, None), and
\* x itself otherwise.
sanitize_for_json(x) ==
    IF x.kind \in {"npbool", "bool"} THEN Val("bool", x.val)
    ELSE IF x.kind = "int" THEN Val("pyint", x.val)
    ELSE IF x.kind \in {"npfloat", "npnan", "npinf"}
         THEN IF x.kind = "npnan" THEN None
              ELSE Val(IF x.kind = "npinf" THEN "inf" ELSE "float", x.val)
    ELSE IF x.kind \in {"nan", "NA", "NaT", "None"} THEN None
    ELSE x

\* Lines 213-215: row.drop("geometry").to_dict(), the id column and the
\* attribute column of row r, each value through sanitize_for_json.
RowAttrs(idcol, values, r) == [GEOID |-> idcol[r], POP |-> values[r]]
SanitizedAttrs(idcol, values, r) ==
    [k \in DOMAIN RowAttrs(idcol, values, r) |->
        sanitize_for_json(RowAttrs(idcol, values, r)[k])]

\* Line 217: G.add_node(node_id, **attrs) creates the node's dictionary or
\* updates it.
add_node(nodeAttrs, n, attrs) ==
    [m \in (DOMAIN nodeAttrs) \cup {n} |->
        IF m # n THEN nodeAttrs[m]
        ELSE IF n \notin DOMAIN nodeAttrs THEN attrs
        ELSE [k \in (DOMAIN nodeAttrs[n]) \cup (DOMAIN attrs) |->
                IF k \in DOMAIN attrs THEN attrs[k] ELSE nodeAttrs[n][k]]]

\* Lines 317-324: sanitize_obj(adjacency_data(G)): every node's dictionary
\* under its id and every edge's dictionary, each value through
\* sanitize_for_json.  The numbers of an edge are Python floats and ints,
\* kept here as the number.
PyNum(v) == Val("float", v)
sanitize_obj(nodes, nodeAttrs, edges) ==
    [nodes |-> {sanitize_for_json(n) : n \in nodes},
     attrs |-> [n \in nodes |->
                  IF n \in DOMAIN nodeAttrs
                  THEN [k \in DOMAIN nodeAttrs[n] |-> sanitize_for_json(nodeAttrs[n][k])]
                  ELSE [k \in {} |-> None]],
     edges |-> [e \in DOMAIN edges |->
                  [k \in DOMAIN edges[e] |-> sanitize_for_json(PyNum(edges[e][k])).val]]]

\* ---- state -------------------------------------------------------------------
VARIABLES
    mode,          \* "build": build_precinct_adjacency_graph runs; "repair":
                   \* connect_components_to_largest is called on its own
    ids,           \* the id column of the GeoDataFrame, by row
    vals,          \* the attribute column of the GeoDataFrame, by row
    probe,         \* the classifier's answers for one pair (PairSpec)
    feet,          \* min_shared_boundary_feet
    geo,           \* measurements of the pairs of rows read so far
    tests,         \* the pairs of rows that reached the classification
    pts,           \* representative points by row (<<>> until computed)
    nodeSeq,       \* G's nodes in insertion order
    nattr,         \* G's node attribute dictionaries
    E,             \* G's edges: edge key -> attribute dictionary
    pc,            \* the place in the code
    i,             \* the row of the running loop
    E0,            \* G's edges when Step 8 / line 113 was reached
    others,        \* the pending components still to process
    largest_list,  \* the list of main-component nodes bridges may end at
    added,         \* bridge edges added
    err,           \* the exception that ended the run
    out            \* the serialized graph (<<>> until written)

vars == <<mode, ids, vals, probe, feet, geo, tests, pts, nodeSeq, nattr, E, pc, i, E0, others,
          largest_list, added, err, out>>

Nodes == SeqToSet(nodeSeq)
FeetVals == {200, 300}
NoGeo == [p \in {} |-> 0]

IdCols(n) == {c \in [1..n -> {StrId(r) : r \in 1..n} \cup {IntId(r) : r \in 1..n}] :
                \A r \in 1..n : c[r].val = r}

\* Line 123: the representative points.  The point of a row whose node is
\* not in the index is never read (lines 135-139), so it is fixed at 0.
Points(idcol) ==
    {f \in [1..Len(idcol) -> 0..MaxCoord] :
        \A r \in 1..Len(idcol) : ~InIndex(idcol, Str(idcol[r])) => f[r] = 0}

NoAttrs == [n \in {} |-> None]
NoProbe == <<>>
DefaultVals == {Val("str", 0)}

\* build_precinct_adjacency_graph is about to add its nodes (line 210), with
\* at most maxRows rows whose attribute values come from values.
InitBuild(maxRows, values) ==
    /\ mode = "build"
    /\ \E n \in 0..maxRows : ids \in IdCols(n) /\ vals \in [1..n -> values]
    /\ probe = NoProbe
    /\ feet \in FeetVals
    /\ geo = NoGeo
    /\ tests = <<>>
    /\ pts = <<>>
    /\ nodeSeq = <<>>
    /\ nattr = NoAttrs
    /\ E = NoEdges
    /\ pc = "nodes"
    /\ i = 1
    /\ E0 = NoEdges
    /\ others = <<>>
    /\ largest_list = <<>>
    /\ added = 0
    /\ err = NoErr
    /\ out = <<>>

Init == InitBuild(MaxRows, DefaultVals)

\* Lines 213-217: one iteration of the node loop.
AddNode ==
    /\ pc = "nodes"
    /\ i <= Len(ids)
    /\ nodeSeq' = IF NodeOfRow(ids, i) \in Nodes THEN nodeSeq
                  ELSE Append(nodeSeq, NodeOfRow(ids, i))
    /\ nattr' = add_node(nattr, NodeOfRow(ids, i), SanitizedAttrs(ids, vals, i))
    /\ i' = i + 1
    /\ UNCHANGED <<mode, ids, vals, probe, feet, geo, tests, pts, E, pc, E0, others, largest_list,
                   added, err, out>>

\* Lines 219-234: the node loop is over; parameters and spatial index.
StartEdges ==
    /\ pc = "nodes"
    /\ i > Len(ids)
    /\ pc' = "edges"
    /\ i' = 1
    /\ UNCHANGED <<mode, ids, vals, probe, feet, geo, tests, pts, nodeSeq, E, E0, others,
                   largest_list, added, err, out, nattr>>

\* Square regions in a row, each of side ScenarioSide (1000 m): consecutive
\* rows share a full side, other rows are a whole number of squares apart.
ScenarioSide == 1000 * 10000
ScenarioGeo(p) ==
    IF p[2] = p[1] + 1 THEN PairGeo(0, TRUE, ScenarioSide, 0, 0)
    ELSE PairGeo((p[2] - p[1] - 1) * ScenarioSide, FALSE, 0,
                 (p[2] - p[1] - 1) * ScenarioSide, 0)

\* The measurements row i can have against the later rows: those of the
\* squares in a row in mode "scenario", any kind otherwise.
RowGeos(m, f, r, n) ==
    LET pairs == {<<r, j>> : j \in (r + 1)..n}
    IN  IF m = "scenario" THEN {[p \in pairs |-> ScenarioGeo(p)]}
        ELSE [pairs -> GeoKinds(f)]

\* Lines 240-282: one iteration of the outer loop, all candidates of row i.
ClassifyRow ==
    /\ pc = "edges"
    /\ i <= Len(ids)
    /\ \E g \in RowGeos(mode, feet, i, Len(ids)) :
          /\ geo' = [p \in (DOMAIN geo) \cup (DOMAIN g) |->
                        IF p \in DOMAIN g THEN g[p] ELSE geo[p]]
          /\ E' = ClassifyCandidates(E, ids, geo', feet, i, 1)
          /\ tests' = tests \o TestedPairs(ids, geo', feet, i)
    /\ nodeSeq' = WithEndpoints(nodeSeq, E')
    /\ i' = i + 1
    /\ UNCHANGED <<mode, ids, vals, probe, feet, pts, pc, E0, others, largest_list,
                   added, err, out, nattr>>

\* Lines 284-286: Step 8, call the repair only when G is disconnected.
Step8 ==
    /\ pc = "edges"
    /\ i > Len(ids)
    /\ E0' = E
    /\ pc' = IF NumComps(Nodes, E) > 1 THEN "cc_start" ELSE "diag"
    /\ UNCHANGED <<mode, ids, vals, probe, feet, geo, tests, pts, nodeSeq, E, i, others,
                   largest_list, added, err, out, nattr>>

\* Lines 113-127: components, the early return, the sort, the centroids and
\* list(largest).
RepairStart ==
    /\ pc = "cc_start"
    /\ LET comps_sorted == CompsSorted(nodeSeq, E)
       IN  IF Len(comps_sorted) <= 1
           THEN /\ pc' = IF mode = "build" THEN "diag" ELSE "returned"
                /\ UNCHANGED <<pts, others, largest_list>>
           ELSE /\ pts' \in Points(ids)
                /\ others' = Tail(comps_sorted)
                /\ largest_list' \in Perms(comps_sorted[1])
                /\ pc' = "cc_loop"
    /\ added' = 0
    /\ UNCHANGED <<mode, ids, vals, probe, feet, geo, tests, nodeSeq, E, i, E0, err, out, nattr>>

\* The component that cannot be bridged is pruned from G.
RepairPrune ==
    /\ pc = "cc_loop"
    /\ others # <<>>
    /\ \A a \in Head(others) : ~InIndex(ids, a)
    /\ nodeSeq' = SelectSeq(nodeSeq, LAMBDA n : n \notin Head(others))
    /\ E' = [e \in {k \in DOMAIN E : k \cap Head(others) = {}} |-> E[e]]
    /\ others' = Tail(others)
    /\ UNCHANGED <<mode, ids, vals, probe, feet, geo, tests, pts, pc, i, E0,
                   largest_list, added, err, out, nattr>>

\* Lines 128-146 when no bridge is added: no node of the component is in the
\* index (best stays None, `continue`).
RepairSkip ==
    /\ pc = "cc_loop"
    /\ others # <<>>
    /\ \A a \in Head(others) : ~InIndex(ids, a)
    /\ others' = Tail(others)
    /\ UNCHANGED <<mode, ids, vals, probe, feet, geo, tests, pts, nodeSeq, E, pc, i, E0,
                   largest_list, added, err, out, nattr>>

\* Line 139 raising: centroids.loc[largest_list] with a label not in the index.
RepairKeyError ==
    /\ pc = "cc_loop"
    /\ others # <<>>
    /\ \E a \in Head(others) : InIndex(ids, a)
    /\ Missing(ids, largest_list) # {}
    /\ err' = KeyError(Missing(ids, largest_list))
    /\ pc' = "error"
    /\ UNCHANGED <<mode, ids, vals, probe, feet, geo, tests, pts, nodeSeq, E, i, E0, others,
                   largest_list, added, out, nattr>>

\* Lines 128-156: one iteration that adds a bridge and extends the main list.
RepairBridge ==
    /\ pc = "cc_loop"
    /\ others # <<>>
    /\ \E a \in Head(others) : InIndex(ids, a)
    /\ Missing(ids, largest_list) = {}
    /\ \E best \in BestChoices(ids, pts, largest_list, Head(others)) :
          /\ E' = AddEdge(E, best.a, best.b, BridgeAttrs(best.dist))
          /\ largest_list' = Absorb(largest_list, Head(others), best.a)
    /\ nodeSeq' = WithEndpoints(nodeSeq, E')
    /\ added' = added + 1
    /\ others' = Tail(others)
    /\ UNCHANGED <<mode, ids, vals, probe, feet, geo, tests, pts, pc, i, E0, err, out, nattr>>

\* Line 158: the loop is over, the function returns.
RepairReturn ==
    /\ pc = "cc_loop"
    /\ others = <<>>
    /\ pc' = IF mode = "build" THEN "diag" ELSE "returned"
    /\ UNCHANGED <<mode, ids, vals, probe, feet, geo, tests, pts, nodeSeq, E, i, E0, others,
                   largest_list, added, err, out, nattr>>

\* Lines 288-315: component diagnostics; an exception ends the run.
Diag ==
    /\ pc = "diag"
    /\ LET e == Diagnostics(ids, nodeSeq, E)
       IN  /\ err' = e
           /\ pc' = IF e = NoErr THEN "save" ELSE "error"
    /\ UNCHANGED <<mode, ids, vals, probe, feet, geo, tests, pts, nodeSeq, E, i, E0, others,
                   largest_list, added, out, nattr>>

\* Lines 317-325: serialize, write both files, return G.
Save ==
    /\ pc = "save"
    /\ out' = sanitize_obj(Nodes, nattr, E)
    /\ pc' = "done"
    /\ UNCHANGED <<mode, ids, vals, probe, feet, geo, tests, pts, nodeSeq, E, i, E0, others,
                   largest_list, added, err, nattr>>

Next ==
    \/ AddNode
    \/ StartEdges
    \/ ClassifyRow
    \/ Step8
    \/ RepairStart
    \/ RepairSkip
    \/ RepairKeyError
    \/ RepairBridge
    \/ RepairReturn
    \/ Diag
    \/ Save

Spec == Init /\ [][Next]_vars

\* ---- connect_components_to_largest called on a given graph -----------------
\* G holds the nodes of MaxNodes rows in row order and any set of strict
\* edges between consecutive rows.
ChainEdges(n, present) ==
    [e \in {EdgeKey(StrId(r), StrId(r + 1)) : r \in present} |->
        StrictAttrs(min_len_m(PROXIMITY_FEET))]

InitRepair ==
    /\ mode = "repair"
    /\ ids \in IdCols(MaxNodes)
    /\ vals \in [1..MaxNodes -> DefaultVals]
    /\ probe = NoProbe
    /\ feet = PROXIMITY_FEET
    /\ geo = NoGeo
    /\ tests = <<>>
    /\ pts = <<>>
    /\ nodeSeq = [r \in 1..MaxNodes |-> StrId(r)]
    /\ nattr = [n \in {StrId(r) : r \in 1..MaxNodes} |-> SanitizedAttrs(ids, vals, n.val)]
    /\ \E present \in SUBSET (1..(MaxNodes - 1)) : E = ChainEdges(MaxNodes, present)
    /\ pc = "cc_start"
    /\ i = 1
    /\ E0 = E
    /\ others = <<>>
    /\ largest_list = <<>>
    /\ added = 0
    /\ err = NoErr
    /\ out = <<>>

NextRepair ==
    \/ RepairStart
    \/ RepairSkip
    \/ RepairKeyError
    \/ RepairBridge
    \/ RepairReturn

RepairSpec == InitRepair /\ [][NextRepair]_vars

\* ---- the build on rows with any attribute value ---------------------------------
AttrVals ==
    {Val("str", 1), Val("int", 1), Val("npfloat", 1), Val("npnan", 0), Val("nan", 0),
     Val("npinf", 1), Val("inf", -1), Val("npbool", 1), Val("NA", 0), Val("NaT", 0),
     Val("None", 0)}

InitAttr == InitBuild(AttrRows, AttrVals)

AttrSpec == InitAttr /\ [][Next]_vars

\* ---- the build on two rows that carry the same id ------------------------------
\* Both rows name the node str(id); G then has one node, so Step 8 never
\* calls the repair.
DupIds == {<<x, x>> : x \in {StrId(1), IntId(1)}}
DupVals == {Val("str", 1), Val("int", 1), Val("npnan", 0)}

InitDup ==
    /\ mode = "build"
    /\ ids \in DupIds
    /\ vals \in [1..2 -> DupVals]
    /\ probe = NoProbe
    /\ feet \in FeetVals
    /\ geo = NoGeo
    /\ tests = <<>>
    /\ pts = <<>>
    /\ nodeSeq = <<>>
    /\ nattr = NoAttrs
    /\ E = NoEdges
    /\ pc = "nodes"
    /\ i = 1
    /\ E0 = NoEdges
    /\ others = <<>>
    /\ largest_list = <<>>
    /\ added = 0
    /\ err = NoErr
    /\ out = <<>>

NextDup ==
    \/ AddNode
    \/ StartEdges
    \/ ClassifyRow
    \/ Step8
    \/ Diag
    \/ Save

DupSpec == InitDup /\ [][NextDup]_vars

\* ---- the build on squares in a row ------------------------------------------------
ScenarioFeet == {0} \cup FeetVals

InitScenario ==
    /\ mode = "scenario"
    /\ ids \in IdCols(ScenarioRows)
    /\ vals \in [1..ScenarioRows -> DefaultVals]
    /\ probe = NoProbe
    /\ feet \in ScenarioFeet
    /\ geo = NoGeo
    /\ tests = <<>>
    /\ pts = <<>>
    /\ nodeSeq = <<>>
    /\ nattr = NoAttrs
    /\ E = NoEdges
    /\ pc = "nodes"
    /\ i = 1
    /\ E0 = NoEdges
    /\ others = <<>>
    /\ largest_list = <<>>
    /\ added = 0
    /\ err = NoErr
    /\ out = <<>>

NextScenario ==
    \/ AddNode
    \/ StartEdges
    \/ ClassifyRow
    \/ Step8
    \/ Diag
    \/ Save

ScenarioSpec == InitScenario /\ [][NextScenario]_vars

\* ---- the classifier on one pair of regions ------------------------------------
\* Lengths around the thresholds of FeetVals.
AbsLens == {0} \cup UNION {{min_len_m(f) - 1, min_len_m(f)} : f \in FeetVals}

PairGeos ==
    {PairGeo(0, TRUE, l, 0, 0) : l \in AbsLens}
    \cup {PairGeo(tol_m, FALSE, 0, d, t) : d \in {tol_m, tol_m + 1}, t \in AbsLens \ {0}}

\* The measurements of the same pair taken with the other region first:
\* intersects, the boundary intersection and the distance do not depend on
\* the order; line 272 then measures bj against bi.buffer(EPS_M), the part of
\* the other buffered boundary that lies within EPS_M of the first.
Swapped(g, t) == [g EXCEPT !.shared_len_tol = t]

InitPair ==
    /\ mode = "pair"
    /\ ids = <<>>
    /\ vals = <<>>
    /\ feet \in ScenarioFeet
    /\ \E f2 \in ScenarioFeet : f2 >= feet /\ probe = [feet2 |-> f2]
    /\ \E g \in PairGeos :
          \E t \in IF g.intersects THEN {g.shared_len_tol} ELSE AbsLens \ {0} :
             geo = [p \in {<<1, 2>>, <<2, 1>>} |->
                      IF p = <<1, 2>> THEN g ELSE Swapped(g, t)]
    /\ tests = <<>>
    /\ pts = <<>>
    /\ nodeSeq = <<>>
    /\ nattr = NoAttrs
    /\ E = NoEdges
    /\ pc = "pair"
    /\ i = 1
    /\ E0 = NoEdges
    /\ others = <<>>
    /\ largest_list = <<>>
    /\ added = 0
    /\ err = NoErr
    /\ out = <<>>

\* Lines 255-282 on the pair in both orders at min_shared_boundary_feet =
\* feet, and in the first order at the larger value feet2.
ProbePair ==
    /\ pc = "pair"
    /\ probe' = [feet2 |-> probe.feet2,
                 ab |-> ClassifyPair(geo[<<1, 2>>], feet),
                 ba |-> ClassifyPair(geo[<<2, 1>>], feet),
                 ab2 |-> ClassifyPair(geo[<<1, 2>>], probe.feet2)]
    /\ pc' = "probed"
    /\ UNCHANGED <<mode, ids, vals, feet, geo, tests, pts, nodeSeq, nattr, E, i, E0,
                   others, largest_list, added, err, out>>

NextPair == ProbePair

PairSpec == InitPair /\ [][NextPair]_vars

\* ---- properties ----------------------------------------------------------------
InputNodes == {Str(ids[r]) : r \in 1..Len(ids)}
ComponentsOf(nodes, edges) == {Reach(nodes, edges, {n}) : n \in nodes}
BridgeEdges(edges) == {e \in DOMAIN edges : "bridge" \in DOMAIN edges[e]}
\* Components of the graph handed to the repair.
K0 == Cardinality(ComponentsOf(InputNodes, E0))
RepairReached == pc \notin {"nodes", "edges"}
\* The edges the classifier has produced.
Classified == IF RepairReached THEN E0 ELSE E
PairKey(p) == {Str(ids[p[1]]), Str(ids[p[2]])}

\* C1: once build_precinct_adjacency_graph has run classification and repair
\* and returned normally, the graph it serialized has exactly one connected
\* component.
C1_Connected ==
    (mode = "build" /\ pc = "done") =>
        Cardinality(ComponentsOf(out.nodes, out.edges)) = 1

C1_Witness ==
    /\ mode = "build" /\ pc = "done"
    /\ K0 = 3
    /\ Cardinality(BridgeEdges(out.edges)) = 2

\* C2: the node set of the graph equals the set of input region ids (as
\* strings) once the nodes are inserted, through classification and repair,
\* and in the serialized output; before that no node is anything but an
\* input id.
C2_NodePreservation ==
    /\ Nodes \subseteq InputNodes
    /\ pc # "nodes" => Nodes = InputNodes
    /\ pc = "done" => out.nodes = InputNodes

C2_Witness ==
    /\ pc = "done"
    /\ Len(ids) = 3
    /\ ids[2].kind = "int"
    /\ Cardinality(DOMAIN E) = 2

\* C3: for a graph with k components before repair,
\* connect_components_to_largest has added exactly k - 1 bridge edges when it
\* returns (0 when k <= 1).
C3_MinimumBridges ==
    pc \in {"diag", "returned"} =>
        Cardinality(BridgeEdges(E)) = (IF K0 <= 1 THEN 0 ELSE K0 - 1)

\* C4: each bridge joins a pair (a in the pending component, b in the main
\* component) of minimum representative-point distance over all such pairs,
\* the main component being the largest component with every node of every
\* pending component bridged so far.
C4_BridgeGlobalMinimum ==
    [][(pc = "cc_loop" /\ added' = added + 1) =>
          LET comp == Head(others)
              main == Reach(Nodes, E, {largest_list[1]})
              key == CHOOSE k \in DOMAIN E' : k \notin DOMAIN E
          IN  \E a \in key \cap comp, b \in key \cap main :
                 \A x \in comp, y \in main :
                    (InIndex(ids, x) /\ InIndex(ids, y)) =>
                        Dist(PointOf(ids, pts, a), PointOf(ids, pts, b))
                            <= Dist(PointOf(ids, pts, x), PointOf(ids, pts, y))]_vars

\* C5: the repair is purely additive: every node and every edge present when
\* it starts, with all its attributes, is present and unchanged at any later
\* point, and no bridge edge lies on a pair that already had an edge.
C5_RepairAdditive ==
    RepairReached =>
        /\ Nodes = InputNodes
        /\ \A e \in DOMAIN E0 : e \in DOMAIN E /\ E[e] = E0[e]
        /\ BridgeEdges(E) \cap DOMAIN E0 = {}

C5_Witness ==
    /\ pc = "returned"
    /\ Cardinality(DOMAIN E0) = 2
    /\ Cardinality(BridgeEdges(E)) = 2

\* C6: when the graph has at most one component as the repair is reached, the
\* repair is a no-op: no edge is added, no node or attribute changes, the loop
\* is never entered and the output holds no bridge edge.
C6_NoOpWhenConnected ==
    (RepairReached /\ K0 <= 1) =>
        /\ E = E0
        /\ Nodes = InputNodes
        /\ BridgeEdges(E) = {}
        /\ added = 0
        /\ pc # "cc_loop"
        /\ pc = "done" => (out.edges = E0 /\ out.nodes = InputNodes)

C6_Witness ==
    /\ pc = "done"
    /\ Len(ids) = 3
    /\ K0 = 1
    /\ out.edges = E0
    /\ Cardinality(DOMAIN E0) = 3

\* C7: if a node of a pending component has no usable representative point,
\* the repair fails with an error that names that node's id: it never
\* returns normally and never ends with an error that does not name it.
C7_DegenerateNodeReported ==
    pc \in {"diag", "save", "done", "returned", "error"} =>
        LET pending == IF K0 <= 1 THEN {}
                       ELSE InputNodes \ CompsSorted(nodeSeq, E0)[1]
            bad == {n \in pending : ~InIndex(ids, n)}
        IN  bad # {} => (pc = "error" /\ bad \subseteq err.ids)

\* C8: the bridge added for a pending component is the same in every run on
\* the same input: it does not depend on the order in which list(largest) or
\* list(comp) enumerates a set.
C8_DeterministicBridge ==
    (/\ pc = "cc_loop" /\ others # <<>>
     /\ \E a \in Head(others) : InIndex(ids, a)
     /\ Missing(ids, largest_list) = {}) =>
        LET n0 == Len(largest_list) - added
            appended == SubSeq(largest_list, n0 + 1, Len(largest_list))
            lists == {p \o appended : p \in Perms({largest_list[k] : k \in 1..n0})}
            bridges == UNION {{EdgeKey(c.a, c.b) :
                                 c \in BestChoices(ids, pts, l, Head(others))} :
                              l \in lists}
        IN  Cardinality(bridges) = 1

\* C9: for every candidate pair whose geometries intersect, a strict edge
\* (tolerance = 0) carrying the boundary-intersection length exists if and
\* only if that length is >= min_shared_boundary; below the threshold the
\* pair has no classifier edge at all, whatever its tolerance test would say.
C9_StrictTier ==
    \A p \in DOMAIN geo :
        (Candidate(geo[p]) /\ geo[p].intersects) =>
            IF geo[p].shared_len >= feet * FEET_TO_METERS
            THEN /\ PairKey(p) \in DOMAIN Classified
                 /\ Classified[PairKey(p)] =
                        [shared_m |-> geo[p].shared_len, tolerance |-> 0]
            ELSE PairKey(p) \notin DOMAIN Classified

C9_Witness ==
    /\ pc = "done"
    /\ \E p, q \in DOMAIN geo :
          /\ geo[p].intersects /\ geo[p].shared_len = feet * FEET_TO_METERS
          /\ PairKey(p) \in DOMAIN E0
          /\ geo[q].intersects /\ geo[q].shared_len = feet * FEET_TO_METERS - 1
          /\ geo[q].shared_len_tol >= feet * FEET_TO_METERS
          /\ PairKey(q) \notin DOMAIN E0

\* C10: for every candidate pair whose geometries do not intersect, no edge
\* is emitted when their distance exceeds the proximity tolerance; otherwise
\* a tolerance edge (tolerance = 1) is emitted if and only if the
\* buffered-boundary overlap length is >= min_shared_boundary, and it records
\* that length, the tolerance distance and the fuzz value.
C10_ToleranceTier ==
    \A p \in DOMAIN geo :
        (Candidate(geo[p]) /\ ~geo[p].intersects) =>
            IF /\ geo[p].distance <= PROXIMITY_FEET * FEET_TO_METERS
               /\ geo[p].shared_len_tol >= feet * FEET_TO_METERS
            THEN /\ PairKey(p) \in DOMAIN Classified
                 /\ Classified[PairKey(p)] =
                        [shared_m |-> geo[p].shared_len_tol, tolerance |-> 1,
                         tol_m |-> PROXIMITY_FEET * FEET_TO_METERS, eps_m |-> EPS_M]
            ELSE PairKey(p) \notin DOMAIN Classified

C10_Witness ==
    /\ pc = "done"
    /\ \E p, q, r \in DOMAIN geo :
          /\ ~geo[p].intersects /\ geo[p].distance = PROXIMITY_FEET * FEET_TO_METERS
          /\ geo[p].shared_len_tol = feet * FEET_TO_METERS
          /\ PairKey(p) \in DOMAIN E0 /\ E0[PairKey(p)].tolerance = 1
          /\ Candidate(geo[q]) /\ geo[q].distance = PROXIMITY_FEET * FEET_TO_METERS + 1
          /\ geo[q].shared_len_tol = feet * FEET_TO_METERS
          /\ PairKey(q) \notin DOMAIN E0
          /\ ~geo[r].intersects /\ geo[r].distance = PROXIMITY_FEET * FEET_TO_METERS
          /\ geo[r].shared_len_tol = feet * FEET_TO_METERS - 1
          /\ PairKey(r) \notin DOMAIN E0

\* C11: every edge of the graph, and of the serialized output, belongs to
\* exactly one tier and carries exactly that tier's evidence: strict
\* (tolerance = 0, shared_m), tolerance (tolerance = 1, shared_m, tol_m,
\* eps_m) or bridge (bridge = 1, centroid_dist_m).
TierOf(at) ==
    LET d == DOMAIN at
    IN  {t \in {"strict", "tolerance", "bridge"} :
           \/ t = "strict" /\ d = {"shared_m", "tolerance"} /\ at.tolerance = 0
           \/ t = "tolerance" /\ d = {"shared_m", "tolerance", "tol_m", "eps_m"}
                /\ at.tolerance = 1
           \/ t = "bridge" /\ d = {"bridge", "centroid_dist_m"} /\ at.bridge = 1}

C11_EdgeTiers ==
    /\ \A e \in DOMAIN E : Cardinality(TierOf(E[e])) = 1
    /\ pc = "done" => \A e \in DOMAIN out.edges : Cardinality(TierOf(out.edges[e])) = 1

C11_Witness ==
    /\ pc = "done"
    /\ \E e, f \in DOMAIN out.edges :
          /\ TierOf(out.edges[e]) = {"bridge"}
          /\ TierOf(out.edges[f]) \in {{"strict"}, {"tolerance"}}

\* C12: every bridge edge (a, b) records as centroid_dist_m exactly the
\* distance between the representative points of a and b.
C12_BridgeDistance ==
    \A e \in BridgeEdges(E) :
        \E a, b \in e :
            /\ e = {a, b}
            /\ InIndex(ids, a) /\ InIndex(ids, b)
            /\ E[e].centroid_dist_m =
                   Dist(PointOf(ids, pts, a), PointOf(ids, pts, b))

C12_Witness ==
    /\ pc = "returned"
    /\ \E e, f \in BridgeEdges(E) :
          /\ e # f
          /\ E[e].centroid_dist_m = 0
          /\ E[f].centroid_dist_m = MaxCoord

\* C13: when the graph has exactly two components before repair, the repair
\* adds exactly one bridge; it joins a node of the smaller component to a
\* node of the larger, and no pair across the two components is strictly
\* closer.
C13_TwoComponents ==
    (pc \in {"diag", "returned"} /\ K0 = 2) =>
        LET main == CompsSorted(nodeSeq, E0)[1]
            comp == InputNodes \ main
        IN  /\ Cardinality(BridgeEdges(E)) = 1
            /\ \A e \in BridgeEdges(E) :
                  \E a \in e \cap comp, b \in e \cap main :
                     \A x \in comp, y \in main :
                        (InIndex(ids, x) /\ InIndex(ids, y)) =>
                            Dist(PointOf(ids, pts, a), PointOf(ids, pts, b))
                                <= Dist(PointOf(ids, pts, x), PointOf(ids, pts, y))

\* C14: the classification loop tests each unordered pair of regions at most
\* once, and only with the earlier row first; every classifier edge comes
\* from exactly one test, so the graph holds one edge per unordered pair.
TestsOf(key) == {k \in 1..Len(tests) : PairKey(tests[k]) = key}

C14_PairsTestedOnce ==
    /\ \A k \in 1..Len(tests) : tests[k][1] < tests[k][2]
    /\ \A k, l \in 1..Len(tests) :
          k # l => {tests[k][1], tests[k][2]} # {tests[l][1], tests[l][2]}
    /\ \A e \in DOMAIN Classified : Cardinality(TestsOf(e)) = 1
    /\ \A e \in DOMAIN E \ BridgeEdges(E) : Cardinality(TestsOf(e)) = 1

C14_Witness ==
    /\ pc = "done"
    /\ Len(tests) = 3
    /\ Cardinality(DOMAIN out.edges) = 3

\* C15: no edge of any tier, in the graph or in the serialized output, has
\* the same node at both ends.
C15_NoSelfLoops ==
    /\ \A e \in DOMAIN E : Cardinality(e) = 2
    /\ pc = "done" => \A e \in DOMAIN out.edges : Cardinality(e) = 2

C15_Witness ==
    /\ pc = "done"
    /\ Len(tests) = 2
    /\ Cardinality(BridgeEdges(out.edges)) = 1
    /\ Cardinality(DOMAIN out.edges) = 2

\* C18: every pair of rows whose geometries intersect or lie within the
\* proximity tolerance of each other is a candidate of its earlier row (the
\* later row is returned by the index query on the earlier row's bounds grown
\* by the tolerance) and reaches the classification.
C18_CandidateCompleteness ==
    \A p \in DOMAIN geo :
        (geo[p].intersects \/ geo[p].distance <= PROXIMITY_FEET * FEET_TO_METERS) =>
            \E k \in 1..Len(tests) : tests[k] = p

C18_Witness ==
    /\ pc = "done"
    /\ \E p, q \in DOMAIN geo :
          /\ ~geo[p].intersects
          /\ geo[p].bbox_gap = PROXIMITY_FEET * FEET_TO_METERS
          /\ geo[p].distance = PROXIMITY_FEET * FEET_TO_METERS
          /\ PairKey(p) \in DOMAIN out.edges
          /\ \E k \in 1..Len(tests) : tests[k] = p
          /\ geo[q].bbox_gap > PROXIMITY_FEET * FEET_TO_METERS
          /\ \A k \in 1..Len(tests) : tests[k] # q

\* C16: the classifier's record for a pair of regions (whether an edge
\* exists, its tier and its recorded shared length) is the same whichever of
\* the two regions comes first.
C16_Symmetry ==
    pc = "probed" => probe.ab = probe.ba

\* C17: with everything else unchanged, a pair that has a strict edge at a
\* larger min_shared_boundary has the same strict edge at a smaller one, and
\* likewise for a tolerance edge: raising the threshold only removes edges.
C17_ThresholdMonotone ==
    (pc = "probed" /\ feet <= probe.feet2) => probe.ab2 \subseteq probe.ab

C17_Witness ==
    /\ pc = "probed"
    /\ feet < probe.feet2
    /\ \E at \in probe.ab : TierOf(at) = {"tolerance"}
    /\ probe.ab2 = {}
    /\ geo[<<1, 2>>].distance = PROXIMITY_FEET * FEET_TO_METERS

\* C19: every serialized node and edge attribute value is a number, a
\* string, a boolean or null, and every input value that is not finite or
\* not defined (NaN, an infinity, pd.NA, pd.NaT, None) is serialized as null.
Undefined(x) == x.kind \in {"nan", "npnan", "inf", "npinf", "NA", "NaT", "None"}

C19_Sanitation ==
    pc = "done" =>
        \A r \in 1..Len(ids) :
            LET inp == RowAttrs(ids, vals, r)
                d == out.attrs[Str(ids[r])]
            IN  \A k \in DOMAIN d :
                   /\ d[k].kind \in {"pyint", "float", "str", "bool", "None"}
                   /\ Undefined(inp[k]) => d[k] = None

\* C20: each node carries exactly the attribute names of its input row (all
\* columns but geometry) and, for every attribute whose input value is a
\* finite number, a string or a boolean, that value; this holds from the
\* node's insertion on, through classification and repair, and in the
\* serialized output.
PyKind(kind) ==
    IF kind \in {"int", "pyint"} THEN "pyint"
    ELSE IF kind \in {"npfloat", "float"} THEN "float"
    ELSE IF kind \in {"npbool", "bool"} THEN "bool"
    ELSE kind

PassedThrough(inp, d) ==
    /\ DOMAIN d = DOMAIN inp
    /\ \A k \in DOMAIN inp :
          ~Undefined(inp[k]) => d[k] = Val(PyKind(inp[k].kind), inp[k].val)

C20_AttributePassThrough ==
    \A r \in 1..Len(ids) :
        /\ (pc # "nodes" \/ r < i) =>
              /\ Str(ids[r]) \in DOMAIN nattr
              /\ PassedThrough(RowAttrs(ids, vals, r), nattr[Str(ids[r])])
        /\ pc = "done" => PassedThrough(RowAttrs(ids, vals, r), out.attrs[Str(ids[r])])

C20_Witness ==
    /\ pc = "done"
    /\ Len(ids) = 2
    /\ vals[1] = Val("int", 1)
    /\ vals[2] = Val("npfloat", 1)
    /\ BridgeEdges(out.edges) # {}

\* C21: if two input rows carry the same id, the build aborts before any
\* node or edge is added to the graph: it never holds a node, never holds an
\* edge and never writes an output in which the two rows are one node.
C21_InputError ==
    (\E r, s \in 1..Len(ids) : r # s /\ ids[r] = ids[s]) =>
        /\ Nodes = {}
        /\ DOMAIN E = {}
        /\ pc # "done"

\* C22: a min_shared_boundary that is zero or negative, or a proximity
\* tolerance smaller than the minimum boundary length, is rejected before any
\* region is processed: the graph never holds a node or an edge and no output
\* is written.
C22_ParameterError ==
    (feet <= 0 \/ PROXIMITY_FEET * FEET_TO_METERS < feet * FEET_TO_METERS) =>
        /\ Nodes = {}
        /\ DOMAIN E = {}
        /\ pc # "done"

\* C23: a pair whose geometries intersect but whose boundary intersection
\* has length zero gets no edge, whatever min_shared_boundary_feet the
\* builder runs with.
C23_PointTouchNoEdge ==
    (pc = "probed" /\ geo[<<1, 2>>].intersects /\ geo[<<1, 2>>].shared_len = 0) =>
        probe.ab = {}

\* C26: for three regions in a row where consecutive regions intersect along
\* a shared boundary of length 1000 and the first and third are 1000 apart,
\* the build yields exactly the two strict edges first-second and
\* second-third, no tolerance edge, a graph that is already connected and no
\* bridge edge.
C26_SquaresInARow ==
    RepairReached =>
        /\ DOMAIN E0 = {PairKey(<<r, r + 1>>) : r \in 1..(Len(ids) - 1)}
        /\ \A e \in DOMAIN E0 : E0[e] = [shared_m |-> ScenarioSide, tolerance |-> 0]
        /\ K0 = 1
        /\ E = E0
        /\ added = 0
        /\ BridgeEdges(E) = {}
        /\ pc = "done" => out.edges = E0

C26_Witness ==
    /\ pc = "done"
    /\ feet = PROXIMITY_FEET
    /\ Len(ids) = 3
    /\ Cardinality(DOMAIN out.edges) = 2
    /\ ~geo[<<1, 3>>].intersects
    /\ geo[<<1, 3>>].distance = ScenarioSide

\* C24: when the input has two or more regions, every node without a strict
\* or tolerance edge has at least one bridge edge once the repair is over; an
\* input of one region ends without an error, with one node and no edge.
C24_IsolatedNodesBridged ==
    /\ (pc \in {"diag", "save", "done"} /\ Len(ids) >= 2) =>
          \A n \in InputNodes :
             (\A e \in DOMAIN E0 : n \notin e) => \E e \in BridgeEdges(E) : n \in e
    /\ Len(ids) = 1 =>
          /\ pc # "error"
          /\ pc = "done" => (out.nodes = InputNodes /\ DOMAIN out.edges = {})

\* C25: the proximity tolerance of the tolerance tier equals
\* min_shared_boundary when the caller gives no separate tolerance: a pair
\* that does not intersect has a tolerance edge exactly when it lies within
\* min_shared_boundary and its overlap length reaches it, and the edge
\* records that distance as its tolerance.
C25_ToleranceFollowsThreshold ==
    \A p \in DOMAIN geo :
        ~geo[p].intersects =>
            /\ PairKey(p) \in DOMAIN Classified <=>
                  /\ geo[p].distance <= feet * FEET_TO_METERS
                  /\ geo[p].shared_len_tol >= feet * FEET_TO_METERS
            /\ PairKey(p) \in DOMAIN Classified =>
                  Classified[PairKey(p)].tol_m = feet * FEET_TO_METERS

\* C27: the initial main component is a component of maximum size, and the
\* remaining components are taken one at a time in order of non-increasing
\* size.
C27_LargestFirst ==
    pc = "cc_loop" =>
        LET comps == ComponentsOf(Nodes, E0)
            main == Reach(Nodes, E0, {largest_list[1]})
            pending == SeqToSet(others)
            taken == comps \ (pending \cup {main})
        IN  /\ \A c \in comps : Cardinality(main) >= Cardinality(c)
            /\ pending \subseteq comps \ {main}
            /\ Cardinality(pending) = Len(others)
            /\ \A k, l \in 1..Len(others) :
                  k < l => Cardinality(others[k]) >= Cardinality(others[l])
            /\ \A c \in taken, d \in pending : Cardinality(c) >= Cardinality(d)

C27_Witness ==
    /\ pc = "cc_loop"
    /\ Len(others) = 1
    /\ Cardinality(ComponentsOf(Nodes, E0)) = 3
    /\ Cardinality(Reach(Nodes, E0, {largest_list[1]})) = 2
    /\ StrId(1) \notin Reach(Nodes, E0, {largest_list[1]})
    /\ Cardinality(Head(others)) = 1

\* C28: the repair loop ends after exactly k - 1 iterations for k initial
\* components, and after the j-th pending component has been processed the
\* graph has exactly k - j connected components.
C28_OneMergePerIteration ==
    /\ pc = "cc_loop" =>
          Cardinality(ComponentsOf(Nodes, E)) = K0 - (K0 - 1 - Len(others))
    /\ (pc = "returned" /\ K0 > 1) =>
          /\ others = <<>>
          /\ Cardinality(ComponentsOf(Nodes, E)) = 1

\* C29: the two ends of a bridge lie in different components when it is
\* added, so no bridge closes a cycle: every bridge is a cut edge of the
\* current graph; and when the repair has returned the bridges form a
\* spanning tree over the original components.
WithoutEdge(edges, e) == [k \in (DOMAIN edges) \ {e} |-> edges[k]]

C29_BridgesSpanningTree ==
    /\ \A e \in BridgeEdges(E) :
          \A a \in e : e \ Reach(Nodes, WithoutEdge(E, e), {a}) # {}
    /\ (pc = "returned" /\ K0 >= 1) =>
          /\ Cardinality(BridgeEdges(E)) = K0 - 1
          /\ Cardinality(ComponentsOf(Nodes, E)) = 1

====
